---- MODULE Spec2Model ----
(***************************************************************************)
(* The LittleComputer3 machine of main.go: a 65536-word memory, eight      *)
(* int16 registers, a program counter (a Go int) and three condition       *)
(* codes, driven one instruction word at a time through                    *)
(* executeInstruction.                                                     *)
(***************************************************************************)
EXTENDS Integers, Sequences, FiniteSets, TLC

VARIABLES
    memory,      \* [65536]int16, kept as the function of its non-zero cells
    registers,   \* [8]int16
    pc,          \* int
    negative,    \* condition codes
    zero,
    positive,
    instruction, \* the last word handed to executeInstruction (-1: none yet)
    outcome,     \* how the last call ended: it returned, or the panic it raised
    pre,         \* the machine as it was when the last call was made
    accessed,    \* the indexes the last call used on memory, in program order
    steps,       \* number of executeInstruction calls made so far
    trace,       \* the log a driver keeps of what it did to the machine
    ir,          \* the word a driver fetched and has yet to execute (-1: none)
    word,        \* the uint16 handed to a decoding function (-1: none)
    decoded      \* which decoding function was called on word, and what it returned

vars == <<memory, registers, pc, negative, zero, positive,
          instruction, outcome, pre, accessed, steps, trace, ir,
          word, decoded>>

machine == <<memory, registers, pc, negative, zero, positive>>

\* the fields of the LittleComputer3 struct, as a record
Snapshot ==
    [memory |-> memory, registers |-> registers, pc |-> pc,
     negative |-> negative, zero |-> zero, positive |-> positive]

----------------------------------------------------------------------------
(* Bounds of the exploration *)

\* executeInstruction calls per behaviour
MaxSteps == 1

\* executeInstruction calls per behaviour of a driver that starts from a new machine
MaxRunSteps == 3

\* widths k and 1-based positions p handed to getBits
MaxWidth == 9
MaxPosition == 13

\* the largest uint16, the type of an instruction word
MaxWord == 65535

----------------------------------------------------------------------------
(* Program constants *)

MemorySize == 65536
NumRegisters == 8

OpCodeAdd == 1
OpCodeAnd == 5
OpCodeNot == 9
OpCodeLd == 2
OpCodeLdr == 6
OpCodeLdi == 10
OpCodeSt == 3
OpCodeStr == 7
OpCodeSti == 11
OpCodeLea == 14
OpCodeBr == 0
OpCodeJMP == 12
OpCodeTrap == 15

\* outcomes of a call
Returned == "returned"
PanicUnexpectedInstruction == "panic: unexpected instruction"
PanicIndexOutOfRange == "panic: index out of range"

----------------------------------------------------------------------------
(* Fixed-width integer arithmetic of Go *)

\* conversion of an integer to int16: the low 16 bits, read as two's complement
Int16(x) == ((x + 32768) % 65536) - 32768

\* conversion of an integer to int8
Int8(x) == ((x + 128) % 256) - 128

\* the low 16 bits of an int16, as an unsigned number
Bits16(x) == x % 65536

\* n >> s on a non-negative int
ShiftRight(n, s) == n \div (2 ^ s)

\* a & b on non-negative ints, bit by bit
RECURSIVE BitAnd(_, _)
BitAnd(a, b) ==
    IF a = 0 \/ b = 0 THEN 0
    ELSE (IF a % 2 = 1 /\ b % 2 = 1 THEN 1 ELSE 0) + 2 * BitAnd(a \div 2, b \div 2)

\* a & b on int16 operands
And16(a, b) == Int16(BitAnd(Bits16(a), Bits16(b)))

\* ^a on an int16 operand: every bit flipped
Not16(a) == Int16(65535 - Bits16(a))

----------------------------------------------------------------------------
(* Decoding *)

\* as getBits, with p counted from 0
getBits_ZeroBasedPosition(n, k, p) == BitAnd((2 ^ k) - 1, ShiftRight(n, p))

getBits(n, k, p) == BitAnd((2 ^ k) - 1, ShiftRight(n, p - 1))

getOpcode(w) == getBits(w, 4, 13)

\* as decodeOperateInstruction, taking five bits for Src2 in either mode
decodeOperateInstruction_WideSrc2(w) ==
    LET dst == getBits(w, 3, 10)
        src1 == getBits(w, 3, 7)
        registerMode == getBits(w, 1, 6)
        src2 == getBits(w, 5, 1)
    IN  [Dst |-> dst % 256, Src1 |-> src1 % 256,
         RegisterMode |-> (registerMode = 0), Src2 |-> src2 % 256]

\* as decodeOperateInstruction, with the sense of the mode bit inverted
decodeOperateInstruction_ModeInverted(w) ==
    LET dst == getBits(w, 3, 10)
        src1 == getBits(w, 3, 7)
        registerMode == getBits(w, 1, 6)
        src2 == IF registerMode = 1 THEN getBits(w, 3, 1) ELSE getBits(w, 5, 1)
    IN  [Dst |-> dst % 256, Src1 |-> src1 % 256,
         RegisterMode |-> (registerMode = 1), Src2 |-> src2 % 256]

decodeOperateInstruction(w) ==
    LET dst == getBits(w, 3, 10)
        src1 == getBits(w, 3, 7)
        registerMode == getBits(w, 1, 6)
        src2 == IF registerMode = 0 THEN getBits(w, 3, 1) ELSE getBits(w, 5, 1)
    IN  [Dst |-> dst % 256, Src1 |-> src1 % 256,
         RegisterMode |-> (registerMode = 0), Src2 |-> src2 % 256]

decodePcRelative(w) ==
    LET dst == getBits(w, 3, 10)
        pcOffset == getBits(w, 9, 1)
    IN  [Register |-> dst % 256, PcOffset |-> Int16(pcOffset)]

decodeBaseRelative(w) ==
    LET dst == getBits(w, 3, 10)
        base == getBits(w, 3, 7)
        offset == getBits(w, 6, 1)
    IN  [Register |-> dst % 256, Base |-> base % 256, Offset |-> Int8(offset)]

decodeBranchInstruction(w) ==
    LET n == getBits(w, 1, 12)
        z == getBits(w, 1, 11)
        p == getBits(w, 1, 10)
        pcOffset == getBits(w, 9, 1)
    IN  [N |-> (n = 1), Z |-> (z = 1), P |-> (p = 1), PcOffset |-> Int16(pcOffset)]

decodeTrapInstruction(w) ==
    [TrapVector |-> getBits(w, 8, 1) % 256]

----------------------------------------------------------------------------
(* Memory: an array of MemorySize int16 words, every word zero unless written *)

InRange(i) == 0 <= i /\ i < MemorySize

Load(mem, i) == IF i \in DOMAIN mem THEN mem[i] ELSE 0

Store(mem, i, v) ==
    IF v = 0
    THEN [j \in (DOMAIN mem) \ {i} |-> mem[j]]
    ELSE [j \in (DOMAIN mem) \cup {i} |-> IF j = i THEN v ELSE mem[j]]

----------------------------------------------------------------------------
(* The instruction words and machine states explored *)

\* the registers named in the register fields of the words
Regs == {0, 1}

\* contents of register 0: the extremes of int16, the values around zero
RegValues == {-32768, -1, 0, 1, 32767}

\* contents of register 1
SmallValues == {-1, 0, 1}

\* program counters: the initial one, a small one, the last word of memory
PcValues == {0, 3, 65535}

\* 5-bit immediates: sign bit clear, sign bit set
Imm5Values == {5, 17}

\* the low six bits of a NOT word
NotLow6Values == {0, 63}

\* 9-bit offsets: bit 8 clear, bit 8 set
Off9Values == {2, 511}

\* 6-bit offsets: bit 5 clear, bit 5 set
Off6Values == {0, 63}

\* n, z, p bits of a BR word
NzpValues == {0, 1, 2, 4, 7}

TrapVectors == {37, 255}

\* opcodes without a case in executeInstruction
UndefinedOpcodes == {4, 8, 13}

\* memory contents: untouched, or a few cells written by earlier stores
\* (cell 2 points at cell 5, cell 511 points at cell 2)
MemoryImages == { << >>, (1 :> 9) @@ (2 :> 5) @@ (5 :> -7) @@ (511 :> 2) }

\* what a driver assigns before its first call: R0, R1, pc and the memory contents
\* (a data image where cell 2 points at cell 1, one where cell 2 points at itself,
\* and the program ADD R0,R1,#5 ; ST R0,#0 at 0x3000)
RunR0Values == {-1, 0, 5}
RunR1Values == {0, 10}
RunPcValues == {0, 12288, 32767}
RunMemoryImages ==
    { << >>,
      (1 :> 9) @@ (2 :> 1) @@ (5 :> -7),
      (2 :> 2) @@ (5 :> -7),
      (12288 :> 4197) @@ (12289 :> 12288) }

OperateWord(op, dst, src1, low6) == op * 4096 + dst * 512 + src1 * 64 + low6
PcRelativeWord(op, reg, off9) == op * 4096 + reg * 512 + off9
BaseRelativeWord(op, reg, base, off6) == op * 4096 + reg * 512 + base * 64 + off6
BranchWord(nzp, off9) == OpCodeBr * 4096 + nzp * 512 + off9
TrapWord(vec) == OpCodeTrap * 4096 + vec

Words ==
    { OperateWord(op, d, s, l) : op \in {OpCodeAdd, OpCodeAnd}, d \in Regs, s \in Regs,
                                 l \in Regs \cup {32 + i : i \in Imm5Values} }
    \cup { OperateWord(OpCodeNot, d, s, l) : d \in Regs, s \in Regs, l \in NotLow6Values }
    \cup { PcRelativeWord(op, r, o) :
             op \in {OpCodeLd, OpCodeSt, OpCodeLdi, OpCodeSti, OpCodeLea},
             r \in Regs, o \in Off9Values }
    \cup { BaseRelativeWord(op, r, b, o) :
             op \in {OpCodeLdr, OpCodeStr}, r \in Regs, b \in Regs, o \in Off6Values }
    \cup { BranchWord(c, o) : c \in NzpValues, o \in Off9Values }
    \cup { BaseRelativeWord(OpCodeJMP, 0, b, 0) : b \in Regs }
    \cup { BaseRelativeWord(OpCodeJMP, 7, b, 63) : b \in Regs }
    \cup { TrapWord(v) : v \in TrapVectors }
    \cup { op * 4096 + 37 : op \in UndefinedOpcodes }

\* the words a driver passes to executeInstruction after preparing the machine:
\* LEA R0,#2  LDR R1,R0,#0  STR R1,R0,#0  LD R1,#2  ST R0,#2  LDI R1,#2  STI R0,#2
RunWords ==
    { PcRelativeWord(OpCodeLea, 0, 2),
      BaseRelativeWord(OpCodeLdr, 1, 0, 0),
      BaseRelativeWord(OpCodeStr, 1, 0, 0),
      PcRelativeWord(OpCodeLd, 1, 2),
      PcRelativeWord(OpCodeSt, 0, 2),
      PcRelativeWord(OpCodeLdi, 1, 2),
      PcRelativeWord(OpCodeSti, 0, 2) }

\* the words of the program image: ADD R0,R1,#5 and ST R0,#0
ProgramWords ==
    { OperateWord(OpCodeAdd, 0, 1, 32 + 5), PcRelativeWord(OpCodeSt, 0, 0) }

AllWords == Words \cup RunWords \cup ProgramWords

----------------------------------------------------------------------------
(* State *)

\* the zero DecodedInstruction, and the value of decoded before any decoding call
NoFields == [Dst |-> 0, Src1 |-> 0, RegisterMode |-> FALSE, Src2 |-> 0]
NoDecode == [fn |-> "none", p |-> 0, bits |-> << >>, opcode |-> 0, fields |-> NoFields]

\* as NewLittleComputer3, with pc at the conventional program origin 0x3000
NewLittleComputer3_PcAtOrigin ==
    /\ memory = << >>
    /\ registers = [r \in 0..(NumRegisters - 1) |-> 0]
    /\ pc = 12288
    /\ negative = FALSE
    /\ zero = FALSE
    /\ positive = FALSE

NewLittleComputer3 ==
    /\ memory = << >>
    /\ registers = [r \in 0..(NumRegisters - 1) |-> 0]
    /\ pc = 0
    /\ negative = FALSE
    /\ zero = FALSE
    /\ positive = FALSE

\* The machine states executeInstruction is applied to.  Each can be produced from
\* NewLittleComputer3, which is one of them: a register takes any int16 value
\* (assigned directly, as TestExecute does, or computed by ADD/NOT chains), a
\* memory cell takes the value of a register through ST, pc moves forward
\* through BR and anywhere in int16 through JMP, and the condition codes are all
\* clear or hold the sign of the last value an instruction wrote (which a later
\* direct assignment may have replaced).
Init ==
    /\ memory \in MemoryImages
    /\ \E a \in RegValues, b \in SmallValues :
          registers = [r \in 0..(NumRegisters - 1) |->
                          IF r = 0 THEN a ELSE IF r = 1 THEN b ELSE 0]
    /\ pc \in PcValues
    /\ \E cc \in {"", "n", "z", "p"} :
          /\ negative = (cc = "n")
          /\ zero = (cc = "z")
          /\ positive = (cc = "p")
    /\ instruction = -1
    /\ outcome = Returned
    /\ pre = Snapshot
    /\ accessed = << >>
    /\ steps = 0
    /\ trace = << >>
    /\ ir = -1
    /\ word = -1
    /\ decoded = NoDecode

----------------------------------------------------------------------------
(* executeInstruction *)

\* The decoders are pure: their results on the explored words, computed once.
Opcode == [w \in AllWords |-> getOpcode(w)]
Operate == [w \in AllWords |-> decodeOperateInstruction(w)]
PcRelative == [w \in AllWords |-> decodePcRelative(w)]
BaseRelative == [w \in AllWords |-> decodeBaseRelative(w)]
Branch == [w \in AllWords |-> decodeBranchInstruction(w)]
Trap == [w \in AllWords |-> decodeTrapInstruction(w)]

\* a faulty variant: zero counted as positive
SetConditionCodes_ZeroPositive(value) ==
    /\ zero' = (value = 0)
    /\ negative' = (value < 0)
    /\ positive' = (value >= 0)

\* the three assignments that follow every register write
SetConditionCodes(value) ==
    /\ zero' = (value = 0)
    /\ negative' = (value < 0)
    /\ positive' = (value > 0)

\* an index expression on memory fails its bounds check: nothing was assigned yet
IndexPanic(idxs) ==
    /\ outcome' = PanicIndexOutOfRange
    /\ accessed' = idxs
    /\ UNCHANGED machine

\* a faulty variant: the sum kept in a wider integer, never truncated to int16
ExecAdd_NoWrap(w) ==
    /\ LET inst == Operate[w]
           a == registers[inst.Src1]
           b == IF inst.RegisterMode THEN registers[inst.Src2] ELSE Int16(inst.Src2)
           value == a + b
       IN  /\ registers' = [registers EXCEPT ![inst.Dst] = value]
           /\ SetConditionCodes(value)
    /\ outcome' = Returned
    /\ accessed' = << >>
    /\ UNCHANGED <<memory, pc>>

ExecAdd(w) ==
    /\ LET inst == Operate[w]
           a == registers[inst.Src1]
           b == IF inst.RegisterMode THEN registers[inst.Src2] ELSE Int16(inst.Src2)
           value == Int16(a + b)
       IN  /\ registers' = [registers EXCEPT ![inst.Dst] = value]
           /\ SetConditionCodes(value)
    /\ outcome' = Returned
    /\ accessed' = << >>
    /\ UNCHANGED <<memory, pc>>

ExecAnd(w) ==
    /\ LET inst == Operate[w]
           a == registers[inst.Src1]
           b == IF inst.RegisterMode THEN registers[inst.Src2] ELSE Int16(inst.Src2)
           value == And16(a, b)
       IN  /\ registers' = [registers EXCEPT ![inst.Dst] = value]
           /\ SetConditionCodes(value)
    /\ outcome' = Returned
    /\ accessed' = << >>
    /\ UNCHANGED <<memory, pc>>

\* a faulty variant: in immediate mode the immediate is complemented
ExecNot_UsesOperand2(w) ==
    /\ LET inst == Operate[w]
           value == Not16(IF inst.RegisterMode THEN registers[inst.Src1]
                                               ELSE Int16(inst.Src2))
       IN  /\ registers' = [registers EXCEPT ![inst.Dst] = value]
           /\ SetConditionCodes(value)
    /\ outcome' = Returned
    /\ accessed' = << >>
    /\ UNCHANGED <<memory, pc>>

ExecNot(w) ==
    /\ LET inst == Operate[w]
           value == Not16(registers[inst.Src1])
       IN  /\ registers' = [registers EXCEPT ![inst.Dst] = value]
           /\ SetConditionCodes(value)
    /\ outcome' = Returned
    /\ accessed' = << >>
    /\ UNCHANGED <<memory, pc>>

\* a faulty variant: the address is taken from the pc of the next instruction
ExecLd_FromNextPc(w) ==
    /\ LET inst == PcRelative[w]
           idx == pc + 1 + inst.PcOffset
       IN  IF ~InRange(idx) THEN IndexPanic(<<idx>>)
           ELSE LET value == Load(memory, idx)
                IN  /\ registers' = [registers EXCEPT ![inst.Register] = value]
                    /\ SetConditionCodes(value)
                    /\ outcome' = Returned
                    /\ accessed' = <<idx>>
                    /\ UNCHANGED <<memory, pc>>

ExecLd(w) ==
    /\ LET inst == PcRelative[w]
           idx == pc + inst.PcOffset
       IN  IF ~InRange(idx) THEN IndexPanic(<<idx>>)
           ELSE LET value == Load(memory, idx)
                IN  /\ registers' = [registers EXCEPT ![inst.Register] = value]
                    /\ SetConditionCodes(value)
                    /\ outcome' = Returned
                    /\ accessed' = <<idx>>
                    /\ UNCHANGED <<memory, pc>>

\* a faulty variant: the store also sets the condition codes
ExecSt_SetsFlags(w) ==
    /\ LET inst == PcRelative[w]
           idx == pc + inst.PcOffset
       IN  IF ~InRange(idx) THEN IndexPanic(<<idx>>)
           ELSE /\ memory' = Store(memory, idx, registers[inst.Register])
                /\ SetConditionCodes(registers[inst.Register])
                /\ outcome' = Returned
                /\ accessed' = <<idx>>
                /\ UNCHANGED <<registers, pc>>

\* as ExecSt, addressing from the word after pc
ExecSt_FromNextPc(w) ==
    /\ LET inst == PcRelative[w]
           idx == pc + 1 + inst.PcOffset
       IN  IF ~InRange(idx) THEN IndexPanic(<<idx>>)
           ELSE /\ memory' = Store(memory, idx, registers[inst.Register])
                /\ outcome' = Returned
                /\ accessed' = <<idx>>
                /\ UNCHANGED <<registers, pc, negative, zero, positive>>

ExecSt(w) ==
    /\ LET inst == PcRelative[w]
           idx == pc + inst.PcOffset
       IN  IF ~InRange(idx) THEN IndexPanic(<<idx>>)
           ELSE /\ memory' = Store(memory, idx, registers[inst.Register])
                /\ outcome' = Returned
                /\ accessed' = <<idx>>
                /\ UNCHANGED <<registers, pc, negative, zero, positive>>

\* as ExecLdi, loading the pointer cell itself instead of the cell it points at
ExecLdi_NoIndirection(w) ==
    /\ LET inst == PcRelative[w]
           idx == pc + inst.PcOffset
       IN  IF ~InRange(idx) THEN IndexPanic(<<idx>>)
           ELSE LET addr == Load(memory, idx)
                IN  IF ~InRange(addr) THEN IndexPanic(<<idx, addr>>)
                    ELSE LET value == addr
                         IN  /\ registers' = [registers EXCEPT ![inst.Register] = value]
                             /\ SetConditionCodes(value)
                             /\ outcome' = Returned
                             /\ accessed' = <<idx, addr>>
                             /\ UNCHANGED <<memory, pc>>

ExecLdi(w) ==
    /\ LET inst == PcRelative[w]
           idx == pc + inst.PcOffset
       IN  IF ~InRange(idx) THEN IndexPanic(<<idx>>)
           ELSE LET addr == Load(memory, idx)
                IN  IF ~InRange(addr) THEN IndexPanic(<<idx, addr>>)
                    ELSE LET value == Load(memory, addr)
                         IN  /\ registers' = [registers EXCEPT ![inst.Register] = value]
                             /\ SetConditionCodes(value)
                             /\ outcome' = Returned
                             /\ accessed' = <<idx, addr>>
                             /\ UNCHANGED <<memory, pc>>

\* a faulty variant: the value is also written over the pointer cell
ExecSti_AlsoWritesPointerCell(w) ==
    /\ LET inst == PcRelative[w]
           idx == pc + inst.PcOffset
       IN  IF ~InRange(idx) THEN IndexPanic(<<idx>>)
           ELSE LET addr == Load(memory, idx)
                IN  IF ~InRange(addr) THEN IndexPanic(<<idx, addr>>)
                    ELSE /\ memory' = Store(Store(memory, addr, registers[inst.Register]),
                                            idx, registers[inst.Register])
                         /\ outcome' = Returned
                         /\ accessed' = <<idx, addr>>
                         /\ UNCHANGED <<registers, pc, negative, zero, positive>>

ExecSti(w) ==
    /\ LET inst == PcRelative[w]
           idx == pc + inst.PcOffset
       IN  IF ~InRange(idx) THEN IndexPanic(<<idx>>)
           ELSE LET addr == Load(memory, idx)
                IN  IF ~InRange(addr) THEN IndexPanic(<<idx, addr>>)
                    ELSE /\ memory' = Store(memory, addr, registers[inst.Register])
                         /\ outcome' = Returned
                         /\ accessed' = <<idx, addr>>
                         /\ UNCHANGED <<registers, pc, negative, zero, positive>>

ExecLdr(w) ==
    /\ LET inst == BaseRelative[w]
           addr == Int16(registers[inst.Base] + Int16(inst.Offset))
       IN  IF ~InRange(addr) THEN IndexPanic(<<addr>>)
           ELSE LET value == Load(memory, addr)
                IN  /\ registers' = [registers EXCEPT ![inst.Register] = value]
                    /\ SetConditionCodes(value)
                    /\ outcome' = Returned
                    /\ accessed' = <<addr>>
                    /\ UNCHANGED <<memory, pc>>

ExecStr(w) ==
    /\ LET inst == BaseRelative[w]
           addr == Int16(registers[inst.Base] + Int16(inst.Offset))
       IN  IF ~InRange(addr) THEN IndexPanic(<<addr>>)
           ELSE /\ memory' = Store(memory, addr, registers[inst.Register])
                /\ outcome' = Returned
                /\ accessed' = <<addr>>
                /\ UNCHANGED <<registers, pc, negative, zero, positive>>

ExecLea(w) ==
    /\ LET inst == PcRelative[w]
           value == Int16(pc + inst.PcOffset)
       IN  /\ registers' = [registers EXCEPT ![inst.Register] = value]
           /\ SetConditionCodes(value)
    /\ outcome' = Returned
    /\ accessed' = << >>
    /\ UNCHANGED <<memory, pc>>

ExecBr(w) ==
    /\ LET inst == Branch[w]
       IN  pc' = pc + inst.PcOffset
    /\ outcome' = Returned
    /\ accessed' = << >>
    /\ UNCHANGED <<memory, registers, negative, zero, positive>>

\* a faulty variant: the jump target is read from the register of bits 11..9
ExecJmp_UsesRegisterField(w) ==
    /\ LET inst == BaseRelative[w]
       IN  pc' = registers[inst.Register]
    /\ outcome' = Returned
    /\ accessed' = << >>
    /\ UNCHANGED <<memory, registers, negative, zero, positive>>

ExecJmp(w) ==
    /\ LET inst == BaseRelative[w]
       IN  pc' = registers[inst.Base]
    /\ outcome' = Returned
    /\ accessed' = << >>
    /\ UNCHANGED <<memory, registers, negative, zero, positive>>

ExecTrap(w) ==
    /\ Trap[w].TrapVector \in 0..255
    /\ outcome' = Returned
    /\ accessed' = << >>
    /\ UNCHANGED machine

ExecDefault(w) ==
    /\ outcome' = PanicUnexpectedInstruction
    /\ accessed' = << >>
    /\ UNCHANGED machine

\* one call, with word w: the switch on the opcode
executeInstruction(w) ==
    /\ instruction' = w
    /\ pre' = Snapshot
    /\ steps' = steps + 1
    /\ CASE Opcode[w] = OpCodeAdd -> ExecAdd(w)
         [] Opcode[w] = OpCodeAnd -> ExecAnd(w)
         [] Opcode[w] = OpCodeNot -> ExecNot(w)
         [] Opcode[w] = OpCodeLd -> ExecLd(w)
         [] Opcode[w] = OpCodeSt -> ExecSt(w)
         [] Opcode[w] = OpCodeLdi -> ExecLdi(w)
         [] Opcode[w] = OpCodeSti -> ExecSti(w)
         [] Opcode[w] = OpCodeLdr -> ExecLdr(w)
         [] Opcode[w] = OpCodeStr -> ExecStr(w)
         [] Opcode[w] = OpCodeLea -> ExecLea(w)
         [] Opcode[w] = OpCodeBr -> ExecBr(w)
         [] Opcode[w] = OpCodeJMP -> ExecJmp(w)
         [] Opcode[w] = OpCodeTrap -> ExecTrap(w)
         [] OTHER -> ExecDefault(w)

\* the driver calls executeInstruction while the process is alive: a panic ends it
Next ==
    /\ steps < MaxSteps
    /\ outcome = Returned
    /\ \E w \in Words : executeInstruction(w)
    /\ UNCHANGED <<trace, ir, word, decoded>>

Spec == Init /\ [][Next]_vars

----------------------------------------------------------------------------
(* A driver that starts from a new machine, prepares it and runs instructions *)

RunInit ==
    /\ NewLittleComputer3
    /\ instruction = -1
    /\ outcome = Returned
    /\ pre = Snapshot
    /\ accessed = << >>
    /\ steps = 0
    /\ trace = << >>
    /\ ir = -1
    /\ word = -1
    /\ decoded = NoDecode

\* an entry of the log: what was done, and the registers after it
Entry(kind, w, at) ==
    [kind |-> kind, word |-> w, pc |-> pre'.pc, at |-> at,
     outcome |-> outcome', accessed |-> accessed', registers |-> registers']

\* before its first call the driver assigns fields of the new machine, as
\* TestExecute assigns registers
Prepare ==
    /\ trace = << >>
    /\ \E a \in RunR0Values, b \in RunR1Values :
          registers' = [registers EXCEPT ![0] = a, ![1] = b]
    /\ pc' \in RunPcValues
    /\ memory' \in RunMemoryImages
    /\ pre' = [pre EXCEPT !.pc = pc']
    /\ UNCHANGED <<negative, zero, positive, instruction, outcome, accessed, steps, ir>>
    /\ UNCHANGED <<word, decoded>>
    /\ trace' = <<Entry("prepare", -1, -1)>>

\* the driver passes a word of its own to executeInstruction, as the tests do
Call ==
    /\ steps < MaxRunSteps
    /\ outcome = Returned
    /\ ir = -1
    /\ \E w \in RunWords :
          /\ executeInstruction(w)
          /\ trace' = Append(trace, Entry("call", w, -1))
    /\ ir' = ir
    /\ UNCHANGED <<word, decoded>>

\* step, first half: the word at pc is fetched and pc advances by one word
\* (only words of AllWords are followed)
Fetch ==
    /\ steps < MaxRunSteps
    /\ outcome = Returned
    /\ ir = -1
    /\ InRange(pc)
    /\ Bits16(Load(memory, pc)) \in AllWords
    /\ ir' = Bits16(Load(memory, pc))
    /\ pc' = pc + 1
    /\ UNCHANGED <<memory, registers, negative, zero, positive,
                   instruction, outcome, pre, accessed, steps, trace,
                   word, decoded>>

\* step, second half: the fetched word is decoded and executed
ExecuteFetched ==
    /\ ir # -1
    /\ executeInstruction(ir)
    /\ trace' = Append(trace, Entry("call", ir, pc - 1))
    /\ ir' = -1
    /\ UNCHANGED <<word, decoded>>

RunNext == Prepare \/ Call \/ Fetch \/ ExecuteFetched

RunSpec == RunInit /\ [][RunNext]_vars

----------------------------------------------------------------------------
(* The decoding functions, called on their own as the decoding tests call them *)

DecodeInit ==
    /\ NewLittleComputer3
    /\ instruction = -1
    /\ outcome = Returned
    /\ pre = Snapshot
    /\ accessed = << >>
    /\ steps = 0
    /\ trace = << >>
    /\ ir = -1
    /\ word \in 0..MaxWord
    /\ decoded = NoDecode

\* getBits(int(word), k, p), called at one position p for each width k
CallGetBits ==
    /\ decoded.fn = "none"
    /\ \E p \in 1..MaxPosition :
          decoded' = [fn |-> "getBits", p |-> p,
                      bits |-> [k \in 1..MaxWidth |-> getBits(word, k, p)],
                      opcode |-> 0, fields |-> NoFields]
    /\ UNCHANGED <<machine, instruction, outcome, pre, accessed, steps, trace, ir, word>>

\* getOpcode(word)
CallGetOpcode ==
    /\ decoded.fn = "none"
    /\ decoded' = [fn |-> "getOpcode", p |-> 0, bits |-> << >>,
                   opcode |-> getOpcode(word), fields |-> NoFields]
    /\ UNCHANGED <<machine, instruction, outcome, pre, accessed, steps, trace, ir, word>>

\* decodeOperateInstruction(word)
CallDecodeOperateInstruction ==
    /\ decoded.fn = "none"
    /\ decoded' = [fn |-> "decodeOperateInstruction", p |-> 0, bits |-> << >>,
                   opcode |-> 0, fields |-> decodeOperateInstruction(word)]
    /\ UNCHANGED <<machine, instruction, outcome, pre, accessed, steps, trace, ir, word>>

DecodeNext == CallGetBits \/ CallGetOpcode \/ CallDecodeOperateInstruction

DecodeSpec == DecodeInit /\ [][DecodeNext]_vars

----------------------------------------------------------------------------
(* Properties.  They read the last call through instruction, pre (the machine
   before it) and the machine after it; the fields of the word are taken by
   position, independently of the decoders. *)

Called == instruction # -1

\* bits lo+width-1 .. lo of the last word (bit 0 is the least significant)
Field(lo, width) == (instruction \div (2 ^ lo)) % (2 ^ width)

Op == Field(12, 4)
DR == Field(9, 3)
SR1 == Field(6, 3)
SR2 == Field(0, 3)
ImmediateMode == Field(5, 1) = 1

\* a width-bit field read as a two's-complement number
SignExtend(x, width) == IF x >= 2 ^ (width - 1) THEN x - 2 ^ width ELSE x

\* the signed 16-bit number congruent to s modulo 2^16
Wrap16(s) == LET r == s % 65536 IN IF r >= 32768 THEN r - 65536 ELSE r

\* the condition codes are exactly the sign of v
FlagsAreSignOf(v) ==
    /\ negative = (v < 0)
    /\ zero = (v = 0)
    /\ positive = (v > 0)

ExactlyOneFlag ==
    /\ negative \/ zero \/ positive
    /\ ~(negative /\ zero)
    /\ ~(negative /\ positive)
    /\ ~(zero /\ positive)

FlagsUnchanged ==
    /\ negative = pre.negative
    /\ zero = pre.zero
    /\ positive = pre.positive

FlagSettingOpcodes ==
    {OpCodeAdd, OpCodeAnd, OpCodeNot, OpCodeLd, OpCodeLdi, OpCodeLdr, OpCodeLea}

Panics == {PanicUnexpectedInstruction, PanicIndexOutOfRange}

\* C1: after a flag-setting instruction (ADD, AND, NOT, LD, LDI, LDR, LEA) has
\* executed, exactly one of negative, zero, positive is true, and it is the sign
\* of the value now in the destination register.
C1_FlagsMatchWrittenValue ==
    (Called /\ outcome = Returned /\ Op \in FlagSettingOpcodes)
        => (ExactlyOneFlag /\ FlagsAreSignOf(registers[DR]))

\* an LDI that turned a positive machine negative by loading a negative word
C1_Witness ==
    /\ Called /\ outcome = Returned /\ Op = OpCodeLdi
    /\ pre.positive /\ negative /\ registers[DR] < 0

\* C2: ADD in register mode writes the sum of the two source registers, wrapped
\* into the signed 16-bit range, and sets the flags to the sign of that result.
C2_AddRegisterWraps ==
    (Called /\ Op = OpCodeAdd /\ ~ImmediateMode)
        => /\ outcome = Returned
           /\ registers[DR] = Wrap16(pre.registers[SR1] + pre.registers[SR2])
           /\ FlagsAreSignOf(Wrap16(pre.registers[SR1] + pre.registers[SR2]))

\* two registers whose sum exceeds 32767: the result is negative
C2_Witness ==
    /\ Called /\ Op = OpCodeAdd /\ ~ImmediateMode
    /\ SR1 # SR2
    /\ pre.registers[SR1] + pre.registers[SR2] > 32767
    /\ registers[DR] = -32768 /\ negative

BrTaken ==
    \/ (Field(11, 1) = 1 /\ pre.negative)
    \/ (Field(10, 1) = 1 /\ pre.zero)
    \/ (Field(9, 1) = 1 /\ pre.positive)

\* C3: BR adds its offset to pc if and only if one of its n, z, p bits matches
\* the flag that is set; otherwise pc is unchanged.
C3_BrTakenIffFlagMatches ==
    (Called /\ Op = OpCodeBr)
        => pc = IF BrTaken THEN pre.pc + SignExtend(Field(0, 9), 9) ELSE pre.pc

\* C4: in immediate mode ADD and AND use the 5-bit immediate sign-extended to
\* 16 bits as their second operand.
C4_ImmediateSignExtended ==
    (Called /\ Op \in {OpCodeAdd, OpCodeAnd} /\ ImmediateMode)
        => LET a == pre.registers[SR1]
               b == SignExtend(Field(0, 5), 5)
           IN  registers[DR] = IF Op = OpCodeAdd THEN Wrap16(a + b) ELSE And16(a, b)

\* C5: LD, ST, LDI, STI and LEA address pc plus the 9-bit offset read as a
\* two's-complement number in -256..255.
C5_PcOffsetSignExtended ==
    /\ (Called /\ Op \in {OpCodeLd, OpCodeSt, OpCodeLdi, OpCodeSti})
          => (accessed # << >> /\ accessed[1] = pre.pc + SignExtend(Field(0, 9), 9))
    /\ (Called /\ Op = OpCodeLea)
          => registers[DR] = Wrap16(pre.pc + SignExtend(Field(0, 9), 9))

\* C6: LDR and STR address registers[base] plus the 6-bit offset read as a
\* two's-complement number in -32..31.
C6_BaseOffsetSignExtended ==
    (Called /\ Op \in {OpCodeLdr, OpCodeStr})
        => (accessed # << >>
            /\ accessed[1] = pre.registers[SR1] + SignExtend(Field(0, 6), 6))

\* C7: a word whose opcode has no handler ends in a decode-failure outcome of
\* its own, returned to the driver: not a panic, not a normal return, and the
\* machine is left as it was.
C7_UndefinedOpcodeReported ==
    (Called /\ Op \in UndefinedOpcodes)
        => /\ outcome \notin Panics
           /\ outcome # Returned
           /\ Snapshot = pre

\* C8: no instruction indexes memory outside 0..65535 and no call ends in a
\* panic: an address outside the address space is reported to the driver.
C8_NoOutOfRangeAccess ==
    Called => /\ \A i \in 1..Len(accessed) : InRange(accessed[i])
              /\ outcome # PanicIndexOutOfRange

\* C9: ST, STR, STI, JMP and BR leave the three condition codes as they were.
C9_StoresAndJumpsKeepFlags ==
    (Called /\ Op \in {OpCodeSt, OpCodeStr, OpCodeSti, OpCodeJMP, OpCodeBr})
        => FlagsUnchanged

\* a store that wrote memory on a machine whose negative flag was, and is, set
C9_Witness ==
    /\ Called /\ Op = OpCodeSt /\ outcome = Returned
    /\ memory # pre.memory
    /\ pre.negative /\ negative /\ pre.registers[DR] > 0

\* C10: NOT writes the bitwise complement of registers[src1] to registers[dst]
\* and sets the flags from it, whatever the low six bits of the word are; it
\* always returns and changes nothing else.
C10_NotIgnoresLowBits ==
    (Called /\ Op = OpCodeNot)
        => /\ outcome = Returned
           /\ registers = [pre.registers EXCEPT ![DR] = -pre.registers[SR1] - 1]
           /\ FlagsAreSignOf(-pre.registers[SR1] - 1)
           /\ memory = pre.memory
           /\ pc = pre.pc

\* a NOT with all six low bits set that complemented 32767 into -32768
C10_Witness ==
    /\ Called /\ Op = OpCodeNot /\ Field(0, 6) = 63
    /\ pre.registers[SR1] = 32767
    /\ registers[DR] = -32768 /\ negative

\* C13: JMP sets pc to the value of the base register (bits 8..6), whatever the
\* flags and the other bits of the word are, and changes nothing else.
C13_JmpSetsPcFromBase ==
    (Called /\ Op = OpCodeJMP)
        => /\ outcome = Returned
           /\ pc = pre.registers[SR1]
           /\ registers = pre.registers
           /\ memory = pre.memory
           /\ FlagsUnchanged

\* a JMP with every other bit of the word set, taken on a machine whose zero
\* flag is set, to the negative address held by the base register
C13_Witness ==
    /\ Called /\ Op = OpCodeJMP /\ DR = 7 /\ Field(0, 6) = 63
    /\ pre.zero /\ zero
    /\ pre.registers[SR1] < 0 /\ pc = pre.registers[SR1] /\ pc # pre.pc

\* C14: TRAP saves the return address, the pc of the instruction following the
\* TRAP, in register 7.
C14_TrapSavesReturnAddress ==
    (Called /\ Op = OpCodeTrap) => registers[7] = Wrap16(pre.pc + 1)

PcRelativeOpcodes == {OpCodeLd, OpCodeSt, OpCodeLdi, OpCodeSti}

C18_PcInRange == InRange(pc)

\* the memory cells whose content the last call changed
ChangedCells ==
    { a \in (DOMAIN memory) \cup (DOMAIN pre.memory) :
        Load(memory, a) # Load(pre.memory, a) }

\* C20: ADD, AND, NOT, LD, LDI, LDR and LEA change at most the destination
\* register (bits 11..9) and the flags, no memory word and no other register;
\* ST, STI and STR change at most one memory word and no register.
C20_OnlyTargetChanges ==
    /\ (Called /\ Op \in FlagSettingOpcodes)
          => /\ memory = pre.memory
             /\ \A r \in 0..(NumRegisters - 1) :
                    r # DR => registers[r] = pre.registers[r]
    /\ (Called /\ Op \in {OpCodeSt, OpCodeSti, OpCodeStr})
          => /\ registers = pre.registers
             /\ Cardinality(ChangedCells) <= 1

\* an STI that changed the one cell its pointer names
C20_Witness ==
    /\ Called /\ Op = OpCodeSti /\ outcome = Returned
    /\ Len(accessed) = 2 /\ accessed[1] # accessed[2]
    /\ ChangedCells = {accessed[2]}
    /\ registers = pre.registers

----------------------------------------------------------------------------
(* Claims about sequences of calls, stated over the driver's log *)

FieldOf(w, lo, width) == (w \div (2 ^ lo)) % (2 ^ width)

NumEntries == Len(trace)

\* the last two entries of the log are calls
LastTwoAreCalls ==
    /\ NumEntries >= 2
    /\ trace[NumEntries].kind = "call"
    /\ trace[NumEntries - 1].kind = "call"

\* the earlier and the later of the last two calls
Earlier == trace[NumEntries - 1]
Later == trace[NumEntries]

\* the last two calls were made at the same pc, and the last one is the call
\* the history variables describe
SamePcPair ==
    /\ LastTwoAreCalls
    /\ ir = -1
    /\ Earlier.pc = Later.pc

\* C11: LEA into r, then LDR or STR with base r and offset 0 at the same pc,
\* uses the memory cell pc + offset (the cell LD or ST with that offset uses)
\* whenever that cell is inside memory; and LEA leaves memory unchanged and
\* does not access it.
C11_LeaThenBaseAccessSameCell ==
    /\ (SamePcPair
         /\ FieldOf(Earlier.word, 12, 4) = OpCodeLea
         /\ FieldOf(Later.word, 12, 4) \in {OpCodeLdr, OpCodeStr}
         /\ FieldOf(Later.word, 6, 3) = FieldOf(Earlier.word, 9, 3)
         /\ FieldOf(Later.word, 0, 6) = 0
         /\ InRange(Earlier.pc + decodePcRelative(Earlier.word).PcOffset))
        => /\ outcome = Returned
           /\ accessed = <<Earlier.pc + decodePcRelative(Earlier.word).PcOffset>>
    /\ (Called /\ Op = OpCodeLea) => (memory = pre.memory /\ accessed = << >>)

\* C12: a returned LDI used exactly two cells, the pointer cell at pc + offset
\* and the cell the pointer cell named in the memory the call started with,
\* and loaded what that memory held there; nothing of an earlier execution
\* of the same word is kept.
C12_LdiReadsCurrentMemory ==
    (Called /\ ir = -1 /\ Op = OpCodeLdi /\ outcome = Returned)
        => /\ Len(accessed) = 2
           /\ (accessed[1] - pre.pc) % 512 = Field(0, 9)
           /\ accessed[2] = Load(pre.memory, accessed[1])
           /\ registers[DR] = Load(pre.memory, Load(pre.memory, accessed[1]))

\* the same LDI word twice at the same pc, a store into its pointer cell in
\* between, and the second execution loads a different value from a different cell
C12_Witness ==
    /\ NumEntries >= 3
    /\ ir = -1
    /\ LastTwoAreCalls
    /\ trace[NumEntries - 2].kind = "call"
    /\ trace[NumEntries - 2].word = Later.word
    /\ trace[NumEntries - 2].pc = Later.pc
    /\ trace[NumEntries - 2].outcome = Returned
    /\ Op = OpCodeLdi
    /\ outcome = Returned
    /\ FieldOf(Earlier.word, 12, 4) = OpCodeSt
    /\ Earlier.accessed = <<accessed[1]>>
    /\ trace[NumEntries - 2].accessed[2] # accessed[2]
    /\ trace[NumEntries - 2].registers[DR] # registers[DR]

\* the log of the end-to-end scenario: R1 = 10 and pc = 0x3000 assigned on a
\* new machine, then ADD R0,R1,#5 fetched from 0x3000 and executed, then
\* ST R0,#0 fetched from 0x3001 and executed
TwoStepsDone ==
    /\ NumEntries = 3
    /\ ir = -1
    /\ trace[1].kind = "prepare"
    /\ trace[1].pc = 12288
    /\ trace[1].registers[1] = 10
    /\ trace[2].kind = "call" /\ trace[2].at = 12288 /\ trace[2].word = 4197
    /\ trace[3].kind = "call" /\ trace[3].at = 12289 /\ trace[3].word = 12288

\* C15: after the two steps of the end-to-end scenario the cell the ST
\* addressed holds 15 and the flags say positive.
C15_EndToEndStores15 ==
    TwoStepsDone
        => /\ outcome = Returned
           /\ Len(accessed) = 1
           /\ Load(memory, accessed[1]) = 15
           /\ positive /\ ~zero /\ ~negative

C15_Witness ==
    /\ TwoStepsDone
    /\ registers[0] = 15
    /\ memory[accessed[1]] = 15

\* C16: a machine nothing has been done to has 65536 zero words, eight zero
\* registers, pc 0 and no flag set.
C16_NewMachineIsZeroed ==
    (trace = << >> /\ ir = -1)
        => /\ \A a \in 0..(MemorySize - 1) : Load(memory, a) = 0
           /\ DOMAIN registers = 0..7
           /\ \A r \in 0..7 : registers[r] = 0
           /\ pc = 0
           /\ ~negative /\ ~zero /\ ~positive

C16_Witness ==
    /\ trace = << >>
    /\ ir = -1
    /\ steps = 0
    /\ Load(memory, 65535) = 0
    /\ registers[7] = 0

\* C19: ST r then LD r' with the same offset at the same pc, the store having
\* succeeded, leaves in r' the value of r, with the flags its sign; and so do
\* STI r then LDI r' when the store succeeded and did not write the pointer
\* cell itself.
C19_StoreLoadRoundTrip ==
    /\ (SamePcPair
         /\ FieldOf(Earlier.word, 12, 4) = OpCodeSt
         /\ FieldOf(Later.word, 12, 4) = OpCodeLd
         /\ FieldOf(Earlier.word, 0, 9) = FieldOf(Later.word, 0, 9)
         /\ Earlier.outcome = Returned)
        => /\ outcome = Returned
           /\ registers[DR] = pre.registers[FieldOf(Earlier.word, 9, 3)]
           /\ FlagsAreSignOf(pre.registers[FieldOf(Earlier.word, 9, 3)])
    /\ (SamePcPair
         /\ FieldOf(Earlier.word, 12, 4) = OpCodeSti
         /\ FieldOf(Later.word, 12, 4) = OpCodeLdi
         /\ FieldOf(Earlier.word, 0, 9) = FieldOf(Later.word, 0, 9)
         /\ Earlier.outcome = Returned
         /\ Earlier.accessed[1] # Earlier.accessed[2])
        => /\ outcome = Returned
           /\ registers[DR] = pre.registers[FieldOf(Earlier.word, 9, 3)]
           /\ FlagsAreSignOf(pre.registers[FieldOf(Earlier.word, 9, 3)])

\* ST R0,#2 then LD R1,#2 at pc 32767 with R0 = -1: cell 32769 is written and
\* read back, and the negative flag is set
C19_Witness ==
    /\ SamePcPair
    /\ FieldOf(Earlier.word, 12, 4) = OpCodeSt
    /\ Op = OpCodeLd
    /\ pre.pc = 32767
    /\ accessed = <<32769>>
    /\ pre.registers[0] = -1
    /\ registers[1] = -1
    /\ negative

----------------------------------------------------------------------------
(* Claims about the decoding functions *)

\* bit i (0-based) of the word handed to the decoder, and its bits lo..lo+width-1
WordBit(i) == (word \div (2 ^ i)) % 2
WordBits(lo, width) == (word \div (2 ^ lo)) % (2 ^ width)

\* C21: decodeOperateInstruction returns Dst = bits 11..9, Src1 = bits 8..6,
\* RegisterMode = (bit 5 is 0), Src2 = bits 2..0 when bit 5 is 0 and bits 4..0
\* when it is 1; Dst and Src1 lie in 0..7, and so does Src2 in register mode.
C21_OperateFields ==
    (decoded.fn = "decodeOperateInstruction")
        => /\ decoded.fields.Dst = WordBits(9, 3)
           /\ decoded.fields.Src1 = WordBits(6, 3)
           /\ decoded.fields.RegisterMode = (WordBit(5) = 0)
           /\ decoded.fields.Src2 =
                 IF WordBit(5) = 0 THEN WordBits(0, 3) ELSE WordBits(0, 5)
           /\ decoded.fields.Dst \in 0..7
           /\ decoded.fields.Src1 \in 0..7
           /\ decoded.fields.RegisterMode => decoded.fields.Src2 \in 0..7

\* 0b0001_001_010_011_001: register mode with bits 4..3 set, which Src2 ignores
C21_Witness ==
    /\ decoded.fn = "decodeOperateInstruction"
    /\ word = 4761
    /\ decoded.fields = [Dst |-> 1, Src1 |-> 2, RegisterMode |-> TRUE, Src2 |-> 1]

\* C22: getBits(n, k, p) is floor(n / 2^(p-1)) mod 2^k and lies in [0, 2^k);
\* getOpcode(n) is floor(n / 4096).
C22_GetBitsIsDivMod ==
    /\ (decoded.fn = "getBits")
        => LET shifted == word \div (2 ^ (decoded.p - 1))
           IN  \A k \in DOMAIN decoded.bits :
                 /\ decoded.bits[k] = shifted % (2 ^ k)
                 /\ decoded.bits[k] >= 0
                 /\ decoded.bits[k] < 2 ^ k
    /\ (decoded.fn = "getOpcode") => decoded.opcode = word \div 4096

\* 0b0001_001_010_011_001 read at position 10: three bits give the Dst field 1,
\* nine bits run past the top of the word and give 0b1001
C22_Witness ==
    /\ decoded.fn = "getBits"
    /\ word = 4761
    /\ decoded.p = 10
    /\ decoded.bits[3] = 1
    /\ decoded.bits[9] = 9

====
